---------------------------- MODULE Spec2Model ----------------------------
(***************************************************************************)
(* Progressive shadow map baker (babylon-shadow-baker).                    *)
(*                                                                         *)
(* State machines over one set of variables:                               *)
(*   SpecPack    potpack, the rectangle packer (src/src/main.ts 1270-1358) *)
(*   SpecPackTwice, SpecPackExample                                        *)
(*               potpack called twice; potpack on rectangles of the sizes  *)
(*               (4,2), (2,2), (2,4)                                       *)
(*   SpecAdd     ProgressiveShadowMap.addMeshes (main.ts 808-870)          *)
(*   SpecAddPingPong                                                       *)
(*               addMeshes of the earlier variant (main.ts 168-202)        *)
(*   SpecPingPong                                                          *)
(*               addMeshes, render and dispose of the earlier variant      *)
(*               (main.ts 168-252)                                         *)
(*   SpecRender  ProgressiveShadowMap.render, the asynchronous ping-pong   *)
(*               accumulation driven by scene ticks (main.ts 872-939)      *)
(*   SpecRenderLive                                                        *)
(*               SpecRender with a render loop that ticks for ever, under  *)
(*               fairness                                                  *)
(*   SpecDispose SpecRender with ProgressiveShadowMap.dispose (945-953)    *)
(*                                                                         *)
(* Numbers are integers; a JavaScript `undefined` number is Undefined and  *)
(* the unbounded height of the first free space is Infinity.               *)
(***************************************************************************)
EXTENDS Integers, Sequences, FiniteSets, TLC

\* ------------------------------------------------------------------ bounds
MaxBoxes == 3
MaxDim == 2
MaxMeshes == 2
MaxBlend == 2
MaxWait == 1
MaxDir == 1
MaxQueue == 2
MaxTicks == 4

\* --------------------------------------------------------------- constants
Infinity == 1000000
Undefined == -1

VARIABLES
    \* potpack
    boxes,          \* the caller's array, sorted and written to in place
    boxes0,         \* snapshot of the caller's array at the call
    spaces,         \* free spaces
    width, height,  \* running container size
    area, startWidth,
    boxIdx,         \* position of the outer for-of loop over boxes
    packPc,         \* "call" | "loop" | "done"
    packResult,     \* the record potpack returns
    firstRun        \* what an earlier call on the same input left and returned

VARIABLES
    \* the host's surfaces and ProgressiveShadowMap's buffers
    meshes,                 \* the meshes handed to addMeshes; uniqueId = index
    uv2,                    \* second UV channel of each mesh
    rtt1List, rtt2List,     \* _pingPongRTT1.renderList, _pingPongRTT2.renderList
    meshMaterialRTT1Map,    \* uniqueId -> material cloned for RTT1
    meshMaterialRTT2Map,    \* uniqueId -> material cloned for RTT2
    addPc,                  \* "none" | "returned" | "threw"
    disposed,               \* what dispose() has released
    hidden                  \* the uv meshes whose isVisible is false

packVars == <<boxes, boxes0, spaces, width, height, area, startWidth,
              boxIdx, packPc, packResult, firstRun>>

VARIABLES
    \* ProgressiveShadowMap fields used by render
    useAlternateRTT,          \* _useAlternateRTT
    originalLightDirection,   \* _originalLightDirection
    lightDirection,           \* _light.direction
    \* one render() call (a session) per element of Sessions
    sessState,                \* "idle" | "running" | "done"
    blendWindow,              \* argument blendWindow
    waitBetweenRenders,       \* argument waitBetweenRenders
    currentIteration,         \* the local currentIteration of the call
    resolved,                 \* whether the promise render returned is resolved
    \* the scene and the JavaScript job queue
    observers,                \* scene.onBeforeRenderObservable, in order
    notifying,                \* observers still to be called in this tick
    microtasks,               \* continuations waiting behind their await
    draining,                 \* the microtask queue is being emptied
    \* history
    events,                   \* notifications emitted, in order
    renderLog,                \* writeRTT.render() calls, in order
    invocations,              \* number of callback invocations per session
    orderly,                  \* every invocation so far ran to its end alone
    lightAtStart              \* light direction when render() was called

addVars == <<meshes, uv2, rtt1List, rtt2List, meshMaterialRTT1Map,
             meshMaterialRTT2Map, addPc, disposed, hidden>>

renderVars == <<useAlternateRTT, originalLightDirection, lightDirection,
                sessState, blendWindow, waitBetweenRenders, currentIteration,
                resolved, observers, notifying, microtasks, draining,
                events, renderLog, invocations, orderly, lightAtStart>>

vars == <<packVars, addVars, renderVars>>

\* ------------------------------------------------------------------ helpers
Max(a, b) == IF a >= b THEN a ELSE b

\* the elements of an array
Range(seq) == {seq[k] : k \in 1..Len(seq)}

\* Minus on a first space whose height is a large finite number
MinusFinite(a, b) == a - b

\* space.h -= box.h where space.h may be Infinity
Minus(a, b) == IF a = Infinity THEN Infinity ELSE a - b

RECURSIVE SumArea(_)
SumArea(bs) ==
    IF bs = <<>> THEN 0
    ELSE Head(bs).w * Head(bs).h + SumArea(Tail(bs))

RECURSIVE MaxWidthOf(_)
MaxWidthOf(bs) ==
    IF bs = <<>> THEN 0
    ELSE Max(Head(bs).w, MaxWidthOf(Tail(bs)))

\* Math.ceil(Math.sqrt(a / 0.95)): the least n with 0.95 * n^2 >= a
CeilSqrt095(a) ==
    CHOOSE n \in 0..(a + 1) :
        /\ 19 * n * n >= 20 * a
        /\ \A m \in 0..(a + 1) : m < n => 19 * m * m < 20 * a

\* boxes.sort((a, b) => b.h - a.h): stable, height descending
RECURSIVE InsertByHeight(_, _)
InsertByHeight(b, sorted) ==
    IF sorted = <<>> THEN <<b>>
    ELSE IF Head(sorted).h >= b.h
         THEN <<Head(sorted)>> \o InsertByHeight(b, Tail(sorted))
         ELSE <<b>> \o sorted

RECURSIVE SortByHeightDesc(_)
SortByHeightDesc(bs) ==
    IF bs = <<>> THEN <<>>
    ELSE LET n == Len(bs)
         IN InsertByHeight(bs[n], SortByHeightDesc(SubSeq(bs, 1, n - 1)))

\* Fits asking for room to spare: box.w < space.w && box.h < space.h
FitsStrict(box, space) == box.w < space.w /\ box.h < space.h

\* the test of the inner loop: not (box.w > space.w || box.h > space.h)
Fits(box, space) == ~(box.w > space.w \/ box.h > space.h)

\* FindSpace scanning from the first space forwards
FindSpaceFirstFit(box, sp) ==
    LET fit == {i \in 1..Len(sp) : Fits(box, sp[i])}
    IN IF fit = {} THEN 0 ELSE CHOOSE i \in fit : \A j \in fit : j >= i

\* the inner loop scans from the last space backwards; 0 when none fits
FindSpace(box, sp) ==
    LET fit == {i \in 1..Len(sp) : Fits(box, sp[i])}
    IN IF fit = {} THEN 0 ELSE CHOOSE i \in fit : \A j \in fit : j <= i

\* const last = spaces.pop(); if (i < spaces.length && last) spaces[i] = last
SwapRemove(sp, i) ==
    LET last == sp[Len(sp)]
        popped == SubSeq(sp, 1, Len(sp) - 1)
    IN IF i <= Len(popped) THEN [popped EXCEPT ![i] = last] ELSE popped

\* UpdateSpaces with the split case forgetting to move the original space
\* below the box (space.y += box.h; space.h -= box.h left out)
UpdateSpacesNoShrink(sp, i, box) ==
    LET space == sp[i]
    IN IF box.w = space.w /\ box.h = space.h
       THEN SwapRemove(sp, i)
       ELSE IF box.h = space.h
       THEN [sp EXCEPT ![i] = [space EXCEPT !.x = space.x + box.w,
                                            !.w = space.w - box.w]]
       ELSE IF box.w = space.w
       THEN [sp EXCEPT ![i] = [space EXCEPT !.y = space.y + box.h,
                                            !.h = Minus(space.h, box.h)]]
       ELSE Append(sp, [x |-> space.x + box.w, y |-> space.y,
                        w |-> space.w - box.w, h |-> box.h])

\* the four cases that update the free-space list after a placement
UpdateSpaces(sp, i, box) ==
    LET space == sp[i]
    IN IF box.w = space.w /\ box.h = space.h
       THEN SwapRemove(sp, i)
       ELSE IF box.h = space.h
       THEN [sp EXCEPT ![i] = [space EXCEPT !.x = space.x + box.w,
                                            !.w = space.w - box.w]]
       ELSE IF box.w = space.w
       THEN [sp EXCEPT ![i] = [space EXCEPT !.y = space.y + box.h,
                                            !.h = Minus(space.h, box.h)]]
       ELSE Append([sp EXCEPT ![i] = [space EXCEPT !.y = space.y + box.h,
                                                   !.h = Minus(space.h, box.h)]],
                   [x |-> space.x + box.w, y |-> space.y,
                    w |-> space.w - box.w, h |-> box.h])

\* PlaceBox with the running size overwritten instead of maximised
\* (width = box.x + box.w; height = box.y + box.h)
PlaceBoxLastEdge(st, k) ==
    LET box == st.boxes[k]
        i == FindSpace(box, st.spaces)
    IN IF i = 0 THEN st
       ELSE LET space == st.spaces[i]
                placed == [box EXCEPT !.x = space.x, !.y = space.y]
            IN [boxes |-> [st.boxes EXCEPT ![k] = placed],
                spaces |-> UpdateSpaces(st.spaces, i, placed),
                height |-> placed.y + placed.h,
                width |-> placed.x + placed.w]

\* one iteration of the outer loop, on the packer state st
PlaceBox(st, k) ==
    LET box == st.boxes[k]
        i == FindSpace(box, st.spaces)
    IN IF i = 0 THEN st
       ELSE LET space == st.spaces[i]
                placed == [box EXCEPT !.x = space.x, !.y = space.y]
            IN [boxes |-> [st.boxes EXCEPT ![k] = placed],
                spaces |-> UpdateSpaces(st.spaces, i, placed),
                height |-> Max(st.height, placed.y + placed.h),
                width |-> Max(st.width, placed.x + placed.w)]

\* Fill dividing by the width alone: area / width || 0
FillOverWidth(a, w, h) ==
    IF a = 0 THEN [num |-> 0, den |-> 1]
    ELSE IF w = 0 THEN [num |-> Infinity, den |-> 1]
    ELSE [num |-> a, den |-> w]

\* area / (width * height) || 0, as a fraction
Fill(a, w, h) ==
    IF a = 0 THEN [num |-> 0, den |-> 1]
    ELSE IF w * h = 0 THEN [num |-> Infinity, den |-> 1]
    ELSE [num |-> a, den |-> w * h]

\* PackSetup with the free-space list kept from the call before, as if
\* `spaces` were declared outside potpack
PackSetupStaleSpaces(bs) ==
    [boxes |-> SortByHeightDesc(bs),
     spaces |-> IF spaces # <<>> THEN spaces
                ELSE <<[x |-> 0, y |-> 0,
                        w |-> Max(CeilSqrt095(SumArea(bs)), MaxWidthOf(bs)),
                        h |-> Infinity]>>,
     width |-> 0,
     height |-> 0]

\* the state of the packer before the outer loop
PackSetup(bs) ==
    [boxes |-> SortByHeightDesc(bs),
     spaces |-> <<[x |-> 0, y |-> 0,
                   w |-> Max(CeilSqrt095(SumArea(bs)), MaxWidthOf(bs)),
                   h |-> Infinity]>>,
     width |-> 0,
     height |-> 0]

RECURSIVE PackLoop(_, _)
PackLoop(st, k) ==
    IF k > Len(st.boxes) THEN st ELSE PackLoop(PlaceBox(st, k), k + 1)

\* potpack(boxes) as one call: the array as it is left, and the result
potpack(bs) ==
    LET st == PackLoop(PackSetup(bs), 1)
    IN [boxes |-> st.boxes,
        w |-> st.width,
        h |-> st.height,
        fill |-> Fill(SumArea(bs), st.width, st.height)]

\* ------------------------------------------------------------------ addMeshes
\* the u (k = 1) or v (k = 2) coordinates of a flat UV array
Coords(uv, k) == {uv[i] : i \in {j \in 1..Len(uv) : j % 2 = k % 2}}

MinOf(S) == CHOOSE m \in S : \A n \in S : m <= n
MaxOf(S) == CHOOSE m \in S : \A n \in S : m >= n

\* _uv1ToBox(uv): the bounding rectangle of a UV array
Uv1ToBox(uv, ref) ==
    IF Len(uv) = 0
    THEN [ref |-> ref, w |-> 0, h |-> 0, x |-> 0, y |-> 0,
          hasUv |-> TRUE, originalUv |-> uv,
          minU |-> 0, maxU |-> 0, minV |-> 0, maxV |-> 0]
    ELSE [ref |-> ref,
          w |-> MaxOf(Coords(uv, 1)) - MinOf(Coords(uv, 1)),
          h |-> MaxOf(Coords(uv, 2)) - MinOf(Coords(uv, 2)),
          x |-> 0, y |-> 0,
          hasUv |-> TRUE, originalUv |-> uv,
          minU |-> MinOf(Coords(uv, 1)), maxU |-> MaxOf(Coords(uv, 1)),
          minV |-> MinOf(Coords(uv, 2)), maxV |-> MaxOf(Coords(uv, 2))]

\* the literal { w: 0, h: 0 } addMeshes makes for a mesh without UVs
EmptyBox(ref) ==
    [ref |-> ref, w |-> 0, h |-> 0, x |-> Undefined, y |-> Undefined,
     hasUv |-> FALSE, originalUv |-> <<>>,
     minU |-> Undefined, maxU |-> Undefined,
     minV |-> Undefined, maxV |-> Undefined]

\* (offset + ((c - min) / (max - min)) * size) / container as a fraction;
\* den = 0 stands for the NaN or Infinity a zero extent or container gives
Remap(c, min, max, offset, size, container) ==
    [num |-> offset * (max - min) + (c - min) * size,
     den |-> (max - min) * container]

\* _boxToUv2(box, containerW, containerH)
BoxToUv2(box, containerW, containerH) ==
    IF \/ ~box.hasUv
       \/ Len(box.originalUv) = 0
       \/ box.x = Undefined
       \/ box.y = Undefined
       \/ box.minU = Undefined
       \/ box.maxU = Undefined
       \/ box.minV = Undefined
       \/ box.maxV = Undefined
    THEN <<>>
    ELSE [i \in 1..Len(box.originalUv) |->
            IF i % 2 = 1
            THEN Remap(box.originalUv[i], box.minU, box.maxU,
                       box.x, box.w, containerW)
            ELSE Remap(box.originalUv[i], box.minV, box.maxV,
                       box.y, box.h, containerH)]

\* the material _createProgressiveShadowMapMaterial returns, with the
\* previous shadow map and the first-iteration flag addMeshes gives it
NewMaterial(first, prev) ==
    [isFirstIteration |-> first, previousShadowMap |-> prev]

\* boxes.map(...) of addMeshes, before packing
MeshBoxes(ms) ==
    [i \in 1..Len(ms) |->
        IF ms[i].hasUv THEN Uv1ToBox(ms[i].uv, i) ELSE EmptyBox(i)]

\* the body of meshes.forEach in addMeshes for the mesh at `index`, on the
\* state st; packed is the array potpack left, cw and ch the container
AddOneMesh(st, ms, index, packed, cw, ch) ==
    LET mesh == ms[index]
        box == packed[index]
    IN IF st.threw \/ mesh.skipName THEN st
       ELSE IF box.w = 0 \/ box.h = 0 THEN st
       ELSE LET withUv == [st EXCEPT !.uv2[index] =
                               [set |-> TRUE, data |-> BoxToUv2(box, cw, ch)]]
            IN IF mesh.material = "none" THEN withUv
               ELSE IF mesh.material = "noclone"
               THEN [withUv EXCEPT !.rtt1List = Append(@, index),
                                   !.threw = TRUE]
               ELSE [withUv EXCEPT
                        !.rtt1List = Append(@, index),
                        !.rtt2List = Append(@, index),
                        !.mat1 = (index :> NewMaterial(TRUE, "RTT2")) @@ @,
                        !.mat2 = (index :> NewMaterial(FALSE, "RTT1")) @@ @]

RECURSIVE AddLoop(_, _, _, _, _, _)
AddLoop(st, ms, index, packed, cw, ch) ==
    IF index > Len(ms) THEN st
    ELSE AddLoop(AddOneMesh(st, ms, index, packed, cw, ch),
                 ms, index + 1, packed, cw, ch)

\* addMeshes(meshes) as one call
AddMeshesResult(st, ms) ==
    LET packed == potpack(MeshBoxes(ms))
    IN AddLoop(st, ms, 1, packed.boxes, packed.w, packed.h)

\* a mesh of the host: its first UV channel, whether its name marks it as a
\* uv_ or debugPlane mesh, and its material
Mesh(hasUv, uv, skipName, material) ==
    [hasUv |-> hasUv, uv |-> uv, skipName |-> skipName, material |-> material]

UvArrays == {<<1, 1, 1 + w, 1 + h>> : w \in 0..MaxDim, h \in 0..MaxDim}

\* every UV choice with a clonable material and an ordinary name; the other
\* kinds of mesh with two UV islands of different height
MeshChoices ==
    LET uvs == {<<FALSE, <<>> >>, <<TRUE, <<>> >>}
                 \cup {<<TRUE, a>> : a \in UvArrays}
        kinds == {<<TRUE, "ok">>, <<FALSE, "none">>, <<FALSE, "noclone">>}
    IN {Mesh(u[1], u[2], FALSE, "ok") : u \in uvs}
         \cup {Mesh(TRUE, a, k[1], k[2]) :
                 a \in {<<1, 1, 2, 2>>, <<1, 1, 2, 3>>}, k \in kinds}

MeshInputs == UNION {[1..n -> MeshChoices] : n \in 0..MaxMeshes}

\* two calls of render() on the one ProgressiveShadowMap
Sessions == {1, 2}

\* a light direction: the vector `base`, jittered for (iteration, total) or not
PlainDirection(d) == [base |-> d, iteration |-> Undefined, total |-> Undefined]

\* the constructor: both buffers empty, RTT1 in the WRITE role, the light's
\* direction cloned into _originalLightDirection; no render() call yet
InitRenderIdle(d) ==
    /\ useAlternateRTT = FALSE
    /\ originalLightDirection = PlainDirection(d)
    /\ lightDirection = PlainDirection(d)
    /\ sessState = [s \in Sessions |-> "idle"]
    /\ blendWindow = [s \in Sessions |-> 0]
    /\ waitBetweenRenders = [s \in Sessions |-> 0]
    /\ currentIteration = [s \in Sessions |-> 0]
    /\ resolved = [s \in Sessions |-> FALSE]
    /\ observers = <<>>
    /\ notifying = <<>>
    /\ microtasks = <<>>
    /\ draining = FALSE
    /\ events = <<>>
    /\ renderLog = <<>>
    /\ invocations = [s \in Sessions |-> 0]
    /\ orderly = [s \in Sessions |-> TRUE]
    /\ lightAtStart = [s \in Sessions |-> PlainDirection(d)]

\* nothing released: neither buffer, no mesh, no cloned material, and the
\* two notification observables still have their observers
NothingDisposed ==
    [rtt1 |-> FALSE, rtt2 |-> FALSE, meshes |-> {},
     materials1 |-> {}, materials2 |-> {}, observables |-> FALSE]

InitPsm(ms) ==
    /\ meshes = ms
    /\ uv2 = [i \in 1..Len(ms) |-> [set |-> FALSE, data |-> <<>>]]
    /\ rtt1List = <<>>
    /\ rtt2List = <<>>
    /\ meshMaterialRTT1Map = <<>>
    /\ meshMaterialRTT2Map = <<>>
    /\ addPc = "none"
    /\ disposed = NothingDisposed
    /\ hidden = {}

\* no earlier call of potpack
NoRun ==
    [done |-> FALSE, boxes |-> <<>>,
     result |-> [w |-> 0, h |-> 0, fill |-> [num |-> 0, den |-> 1]]]

InitPackIdle ==
    /\ boxes = <<>>
    /\ boxes0 = <<>>
    /\ spaces = <<>>
    /\ width = 0
    /\ height = 0
    /\ area = 0
    /\ startWidth = 0
    /\ boxIdx = 1
    /\ packPc = "idle"
    /\ packResult = [w |-> 0, h |-> 0, fill |-> [num |-> 0, den |-> 1]]
    /\ firstRun = NoRun

AddMeshes ==
    /\ addPc = "none"
    /\ \E st \in {AddMeshesResult(
                    [uv2 |-> uv2, rtt1List |-> rtt1List, rtt2List |-> rtt2List,
                     mat1 |-> meshMaterialRTT1Map, mat2 |-> meshMaterialRTT2Map,
                     threw |-> FALSE], meshes)} :
          /\ uv2' = st.uv2
          /\ rtt1List' = st.rtt1List
          /\ rtt2List' = st.rtt2List
          /\ meshMaterialRTT1Map' = st.mat1
          /\ meshMaterialRTT2Map' = st.mat2
          /\ addPc' = IF st.threw THEN "threw" ELSE "returned"
    /\ \A s \in Sessions : sessState[s] = "idle"
    /\ UNCHANGED <<meshes, disposed, hidden, packVars, renderVars>>

InitAdd ==
    /\ InitPackIdle
    /\ InitRenderIdle(0)
    /\ \E ms \in MeshInputs : InitPsm(ms)

NextAdd == AddMeshes

SpecAdd == InitAdd /\ [][NextAdd]_vars

\* ------------------------------------------- addMeshes, ping-pong variant
\* the earlier ProgressiveShadowMap (main.ts 120-377): meshes without UVs are
\* filtered out of boxes, and _boxToUv2 is called for every mesh not skipped
\* by its name

\* meshes.map(...).filter(box => box !== null)
MeshBoxesPingPong(ms) ==
    LET withUv == SelectSeq([i \in 1..Len(ms) |-> i], LAMBDA i : ms[i].hasUv)
    IN [k \in 1..Len(withUv) |-> Uv1ToBox(ms[withUv[k]].uv, withUv[k])]

\* _boxToUv2(box, containerW, containerH) of the ping-pong variant
BoxToUv2PingPong(box, containerW, containerH) ==
    IF Len(box.originalUv) = 0
    THEN <<>>
    ELSE [i \in 1..Len(box.originalUv) |->
            IF i % 2 = 1
            THEN Remap(box.originalUv[i], box.minU, box.maxU,
                       box.x, box.w, containerW)
            ELSE Remap(box.originalUv[i], box.minV, box.maxV,
                       box.y, box.h, containerH)]

\* the body of meshes.forEach for the mesh at `index`; boxes[index] is
\* undefined beyond the end of boxes, and reading box.originalUv then throws
\* a TypeError (pc "crashed"); a material whose clone is null throws the
\* explicit Error (pc "threw")
AddOneMeshPingPong(st, ms, index, packed, cw, ch) ==
    LET mesh == ms[index]
    IN IF st.pc # "returned" \/ mesh.skipName THEN st
       ELSE IF index > Len(packed) THEN [st EXCEPT !.pc = "crashed"]
       ELSE LET withUv == [st EXCEPT !.uv2[index] =
                               [set |-> TRUE,
                                data |-> BoxToUv2PingPong(packed[index], cw, ch)]]
            IN IF mesh.material = "none" THEN withUv
               ELSE IF mesh.material = "noclone"
               THEN [withUv EXCEPT !.pc = "threw"]
               ELSE [withUv EXCEPT !.list = Append(@, index)]

RECURSIVE AddLoopPingPong(_, _, _, _, _, _)
AddLoopPingPong(st, ms, index, packed, cw, ch) ==
    IF index > Len(ms) THEN st
    ELSE AddLoopPingPong(AddOneMeshPingPong(st, ms, index, packed, cw, ch),
                         ms, index + 1, packed, cw, ch)

\* addMeshes(meshes) of the ping-pong variant as one call; the clones of the
\* meshes go to the render list of the buffer in the WRITE role
AddMeshesPingPong ==
    /\ addPc = "none"
    /\ \A s \in Sessions : sessState[s] = "idle"
    /\ \E packed \in {potpack(MeshBoxesPingPong(meshes))} :
       \E st \in {AddLoopPingPong(
                    [uv2 |-> uv2,
                     list |-> IF useAlternateRTT THEN rtt2List ELSE rtt1List,
                     pc |-> "returned"],
                    meshes, 1, packed.boxes, packed.w, packed.h)} :
          /\ uv2' = st.uv2
          /\ rtt1List' = IF useAlternateRTT THEN rtt1List ELSE st.list
          /\ rtt2List' = IF useAlternateRTT THEN st.list ELSE rtt2List
          /\ addPc' = st.pc
    /\ UNCHANGED <<meshes, meshMaterialRTT1Map, meshMaterialRTT2Map, disposed,
                   hidden, packVars, renderVars>>

NextAddPingPong == AddMeshesPingPong

SpecAddPingPong == InitAdd /\ [][NextAddPingPong]_vars

\* --------------------------------- render and dispose, ping-pong variant
\* the buffers of the earlier ProgressiveShadowMap as render() works on them
\* _flipRTTs(): the roles are swapped, the new write buffer takes over the
\* render list of the new read buffer, which is left with an empty list
FlipRTTsPingPong(st) ==
    IF st.alt
    THEN [st EXCEPT !.alt = FALSE, !.list1 = st.list2, !.list2 = <<>>]
    ELSE [st EXCEPT !.alt = TRUE, !.list2 = st.list1, !.list1 = <<>>]

\* pass i of render(blendWindow)
RenderPassPingPong(st, i, window) ==
    LET list == IF st.alt THEN st.list2 ELSE st.list1
    IN IF Len(list) > 0
       THEN FlipRTTsPingPong(
                [st EXCEPT !.hidden = IF i = window - 1
                                      THEN @ \cup {list[k] : k \in 1..Len(list)}
                                      ELSE @])
       ELSE st

RECURSIVE RenderLoopPingPong(_, _, _)
RenderLoopPingPong(st, i, window) ==
    IF i >= window THEN st
    ELSE RenderLoopPingPong(RenderPassPingPong(st, i, window), i + 1, window)

\* render(blendWindow) of the ping-pong variant: a synchronous call
RenderPingPong ==
    /\ \E window \in 0..MaxBlend :
       \E st \in {RenderLoopPingPong(
                    [alt |-> useAlternateRTT, list1 |-> rtt1List,
                     list2 |-> rtt2List, hidden |-> hidden], 0, window)} :
          /\ useAlternateRTT' = st.alt
          /\ rtt1List' = st.list1
          /\ rtt2List' = st.list2
          /\ hidden' = st.hidden
    /\ UNCHANGED <<meshes, uv2, meshMaterialRTT1Map, meshMaterialRTT2Map,
                   addPc, disposed, packVars, originalLightDirection,
                   lightDirection, sessState, blendWindow, waitBetweenRenders,
                   currentIteration, resolved, observers, notifying,
                   microtasks, draining, events, renderLog, invocations,
                   orderly, lightAtStart>>

\* dispose() of the ping-pong variant: the meshes of _pingPongRTT1's render
\* list are disposed, then the two buffers; the rendering library either
\* keeps or drops the render list of a disposed texture
DisposePingPong ==
    /\ ~disposed.rtt1
    /\ disposed' = [disposed EXCEPT !.meshes = @ \cup Range(rtt1List),
                                    !.rtt1 = TRUE,
                                    !.rtt2 = TRUE]
    /\ \E dropped \in BOOLEAN :
          /\ rtt1List' = IF dropped THEN <<>> ELSE rtt1List
          /\ rtt2List' = IF dropped THEN <<>> ELSE rtt2List
    /\ UNCHANGED <<meshes, uv2, meshMaterialRTT1Map, meshMaterialRTT2Map,
                   addPc, hidden, packVars, renderVars>>

NextPingPong ==
    \/ AddMeshesPingPong
    \/ RenderPingPong
    \/ DisposePingPong

SpecPingPong == InitAdd /\ [][NextPingPong]_vars

\* ---------------------------------------------------------------- render
\* _getWriteRTT, _getReadRTT
WriteRTT(alt) == IF alt THEN "RTT2" ELSE "RTT1"
ReadRTT(alt) == IF alt THEN "RTT1" ELSE "RTT2"

\* getShadowMap()
GetShadowMap == ReadRTT(useAlternateRTT)

RenderList(rtt) == IF rtt = "RTT1" THEN rtt1List ELSE rtt2List
MaterialMap(rtt) ==
    IF rtt = "RTT1" THEN meshMaterialRTT1Map ELSE meshMaterialRTT2Map

\* whether dispose() has released the buffer
IsDisposed(rtt) == IF rtt = "RTT1" THEN disposed.rtt1 ELSE disposed.rtt2

\* _jitterLight starting from the light's current direction instead of the
\* captured one: the offsets of earlier steps add up
JitterLightDrift(original, iteration, totalIterations) ==
    [base |-> lightDirection.base,
     iteration |-> IF lightDirection.iteration = Undefined THEN iteration
                   ELSE lightDirection.iteration + iteration + 1,
     total |-> totalIterations]

\* _jitterLight(iteration, totalIterations): the original direction moved
\* by the offset of (iteration, totalIterations) and normalised
JitterLight(original, iteration, totalIterations) ==
    [base |-> original.base, iteration |-> iteration, total |-> totalIterations]

\* _restoreOriginalLight()
RestoreOriginalLight(original) == original

\* if (currentIteration >= blendWindow), with off-by-one as the mutant
IsCompleteLate(iteration, window) == iteration > window

IsComplete(iteration, window) == iteration >= window

\* the forEach that refreshes isFirstIteration on the write buffer's materials
RefreshFirstIteration(map, list, iteration) ==
    [id \in DOMAIN map |->
        IF \E k \in 1..Len(list) : list[k] = id
        THEN [map[id] EXCEPT !.isFirstIteration = (iteration = 0)]
        ELSE map[id]]

\* the isFirstIteration flags the meshes of a buffer would be drawn with
FirstFlags(rtt) ==
    {MaterialMap(rtt)[id].isFirstIteration :
        id \in {RenderList(rtt)[k] : k \in 1..Len(RenderList(rtt))}
                 \cap DOMAIN MaterialMap(rtt)}

\* an observable whose remove() leaves the observer registered
RemoveNothing(seq, s) == seq

\* scene.onBeforeRenderObservable.remove(renderObserver)
Remove(seq, s) == SelectSeq(seq, LAMBDA e : e # s)

\* the host changes the light's direction while no session is running
HostSetLight ==
    /\ notifying = <<>>
    /\ ~draining
    /\ \A s \in Sessions : sessState[s] # "running"
    /\ \E d \in 0..MaxDir :
          /\ PlainDirection(d) # lightDirection
          /\ lightDirection' = PlainDirection(d)
    /\ UNCHANGED <<packVars, addVars, useAlternateRTT, originalLightDirection,
                   sessState, blendWindow, waitBetweenRenders, currentIteration,
                   resolved, observers, notifying, microtasks, draining,
                   events, renderLog, invocations, orderly, lightAtStart>>

\* render(blendWindow, waitBetweenRenders) up to the return of its promise:
\* the observer is registered on scene.onBeforeRenderObservable
StartRender ==
    /\ notifying = <<>>
    /\ ~draining
    /\ addPc # "threw"
    /\ \E s \in Sessions, n \in 0..MaxBlend, wt \in {0, MaxWait} :
          /\ sessState[s] = "idle"
          /\ \A t \in Sessions : t < s => sessState[t] # "idle"
          /\ sessState' = [sessState EXCEPT ![s] = "running"]
          /\ blendWindow' = [blendWindow EXCEPT ![s] = n]
          /\ waitBetweenRenders' = [waitBetweenRenders EXCEPT ![s] = wt]
          /\ currentIteration' = [currentIteration EXCEPT ![s] = 0]
          /\ observers' = Append(observers, s)
          /\ lightAtStart' = [lightAtStart EXCEPT ![s] = lightDirection]
    /\ UNCHANGED <<packVars, addVars, useAlternateRTT, originalLightDirection,
                   lightDirection, resolved, notifying, microtasks, draining,
                   events, renderLog, invocations, orderly>>

\* scene.render() reaches onBeforeRenderObservable.notifyObservers(): every
\* registered observer will be called, in order.  A tick may come while
\* continuations of earlier ticks of the same task are still queued.
Tick ==
    /\ notifying = <<>>
    /\ ~draining
    /\ observers # <<>>
    /\ Len(microtasks) + Len(observers) <= MaxQueue
    /\ \A k \in 1..Len(observers) : invocations[observers[k]] < MaxTicks
    /\ notifying' = observers
    /\ UNCHANGED <<packVars, addVars, useAlternateRTT, originalLightDirection,
                   lightDirection, sessState, blendWindow, waitBetweenRenders,
                   currentIteration, resolved, observers, microtasks, draining,
                   events, renderLog, invocations, orderly, lightAtStart>>

\* the render loop goes on for ever: a tick whatever the number of earlier
\* invocations
TickForever ==
    /\ notifying = <<>>
    /\ ~draining
    /\ observers # <<>>
    /\ Len(microtasks) + Len(observers) <= MaxQueue
    /\ notifying' = observers
    /\ UNCHANGED <<packVars, addVars, useAlternateRTT, originalLightDirection,
                   lightDirection, sessState, blendWindow, waitBetweenRenders,
                   currentIteration, resolved, observers, microtasks, draining,
                   events, renderLog, invocations, orderly, lightAtStart>>

\* the three ways one invocation of the observer callback of session s runs
\* up to its return or its await
CallbackTooSoon(s) ==
    /\ resolved' = [resolved EXCEPT ![s] = TRUE]
    /\ orderly' = [orderly EXCEPT ![s] = FALSE]
    /\ UNCHANGED <<addVars, useAlternateRTT, lightDirection, sessState,
                   currentIteration, observers, microtasks, events>>

CallbackComplete(s) ==
    /\ observers' = Remove(observers, s)
    /\ lightDirection' = RestoreOriginalLight(originalLightDirection)
    /\ events' = Append(events, [kind |-> "bake", session |-> s,
                                 light |-> RestoreOriginalLight(originalLightDirection)])
    /\ resolved' = [resolved EXCEPT ![s] = TRUE]
    /\ sessState' = [sessState EXCEPT ![s] = "done"]
    /\ UNCHANGED <<addVars, useAlternateRTT, currentIteration, microtasks, orderly>>

\* a step whose await never resumes, whatever the buffer's readiness
CallbackStepNeverResumes(s, ready) ==
    LET iteration == currentIteration[s]
        writeRTT == WriteRTT(useAlternateRTT)
        pending == \E k \in 1..Len(microtasks) : microtasks[k].session = s
    IN /\ lightDirection' =
              JitterLight(originalLightDirection, iteration, blendWindow[s])
       /\ IF Len(RenderList(writeRTT)) > 0
          THEN /\ UNCHANGED <<meshMaterialRTT1Map, meshMaterialRTT2Map,
                              microtasks, currentIteration>>
               /\ orderly' = [orderly EXCEPT ![s] = FALSE]
          ELSE /\ currentIteration' = [currentIteration EXCEPT ![s] = @ + 1]
               /\ orderly' = [orderly EXCEPT ![s] = @ /\ ~pending]
               /\ UNCHANGED <<meshMaterialRTT1Map, meshMaterialRTT2Map, microtasks>>
       /\ UNCHANGED <<meshes, uv2, rtt1List, rtt2List, addPc, disposed,
                      hidden, useAlternateRTT,
                      sessState, observers, events, resolved>>

CallbackStep(s, ready) ==
    LET iteration == currentIteration[s]
        writeRTT == WriteRTT(useAlternateRTT)
        pending == \E k \in 1..Len(microtasks) : microtasks[k].session = s
    IN /\ lightDirection' =
              JitterLight(originalLightDirection, iteration, blendWindow[s])
       /\ IF Len(RenderList(writeRTT)) > 0
          THEN /\ IF iteration \in {0, 1, 2}
                  THEN /\ meshMaterialRTT1Map' =
                             IF writeRTT = "RTT1"
                             THEN RefreshFirstIteration(meshMaterialRTT1Map,
                                                        rtt1List, iteration)
                             ELSE meshMaterialRTT1Map
                       /\ meshMaterialRTT2Map' =
                             IF writeRTT = "RTT2"
                             THEN RefreshFirstIteration(meshMaterialRTT2Map,
                                                        rtt2List, iteration)
                             ELSE meshMaterialRTT2Map
                  ELSE UNCHANGED <<meshMaterialRTT1Map, meshMaterialRTT2Map>>
               \* await new Promise(res => { if (isReadyForRendering()) res() })
               /\ microtasks' =
                     IF ready
                     THEN Append(microtasks,
                                 [session |-> s, writeRTT |-> writeRTT,
                                  iteration |-> iteration])
                     ELSE microtasks
               /\ orderly' = [orderly EXCEPT ![s] = @ /\ ready /\ ~pending]
               /\ UNCHANGED currentIteration
          ELSE /\ currentIteration' = [currentIteration EXCEPT ![s] = @ + 1]
               /\ orderly' = [orderly EXCEPT ![s] = @ /\ ~pending]
               /\ UNCHANGED <<meshMaterialRTT1Map, meshMaterialRTT2Map, microtasks>>
       /\ UNCHANGED <<meshes, uv2, rtt1List, rtt2List, addPc, disposed,
                      hidden, useAlternateRTT,
                      sessState, observers, events, resolved>>

\* the next observer of the running notification is called; tooSoon is the
\* outcome of performance.now() - startTime < waitBetweenRenders and ready
\* that of writeRTT.isReadyForRendering().  The count of invocations stops
\* at MaxTicks.
CallbackWith(tooSoon, ready) ==
    /\ notifying # <<>>
    /\ notifying' = Tail(notifying)
    /\ LET s == Head(notifying)
       IN /\ tooSoon => waitBetweenRenders[s] > 0
          /\ invocations' = [invocations EXCEPT
                                ![s] = IF @ < MaxTicks THEN @ + 1 ELSE @]
          /\ IF tooSoon THEN CallbackTooSoon(s)
             ELSE IF IsComplete(currentIteration[s], blendWindow[s])
             THEN CallbackComplete(s)
             ELSE CallbackStep(s, ready)
    /\ UNCHANGED <<packVars, originalLightDirection, blendWindow,
                   waitBetweenRenders, draining, renderLog, lightAtStart>>

Callback == \E tooSoon, ready \in BOOLEAN : CallbackWith(tooSoon, ready)

\* the callback resumes after its await: render the buffer it took as write
\* buffer before the await, flip, notify, count the iteration
Continue ==
    /\ notifying = <<>>
    /\ microtasks # <<>>
    /\ LET c == Head(microtasks)
       IN /\ renderLog' = Append(renderLog,
                 [session |-> c.session, iteration |-> c.iteration,
                  rtt |-> c.writeRTT, write |-> WriteRTT(useAlternateRTT),
                  light |-> lightDirection, first |-> FirstFlags(c.writeRTT),
                  disposed |-> IsDisposed(c.writeRTT)])
          /\ useAlternateRTT' = ~useAlternateRTT
          /\ events' = Append(events, [kind |-> "blend", session |-> c.session,
                                       light |-> lightDirection])
          /\ currentIteration' = [currentIteration EXCEPT ![c.session] = @ + 1]
    /\ microtasks' = Tail(microtasks)
    /\ draining' = (Tail(microtasks) # <<>>)
    /\ UNCHANGED <<packVars, addVars, originalLightDirection, lightDirection,
                   sessState, blendWindow, waitBetweenRenders, resolved,
                   observers, notifying, invocations, orderly, lightAtStart>>

\* the surfaces a bake is run with: none, or MaxMeshes ordinary meshes
RenderMeshInputs ==
    {<<>>, [i \in 1..MaxMeshes |-> Mesh(TRUE, <<1, 1, 2, 2>>, FALSE, "ok")]}

InitRender ==
    /\ InitPackIdle
    /\ InitRenderIdle(0)
    /\ \E ms \in RenderMeshInputs : InitPsm(ms)

NextRender ==
    \/ AddMeshes
    \/ HostSetLight
    \/ StartRender
    \/ Tick
    \/ Callback
    \/ Continue

SpecRender == InitRender /\ [][NextRender]_vars

\* the observer of session s is called when the wait between renders has
\* elapsed and the write buffer is ready
CallbackReady(s) ==
    /\ notifying # <<>>
    /\ Head(notifying) = s
    /\ CallbackWith(FALSE, TRUE)

NextRenderLive ==
    \/ AddMeshes
    \/ HostSetLight
    \/ StartRender
    \/ TickForever
    \/ Callback
    \/ Continue

\* the render loop keeps ticking, a notification calls every observer, a
\* resumed callback runs, and every observer that keeps being called is
\* called again and again with the wait elapsed and the buffer ready
SpecRenderLive ==
    /\ InitRender
    /\ [][NextRenderLive]_vars
    /\ WF_vars(TickForever)
    /\ WF_vars(Callback)
    /\ WF_vars(Continue)
    /\ \A s \in Sessions : SF_vars(CallbackReady(s))

\* ---------------------------------------------------------------- dispose
\* dispose(): every mesh of RTT1's render list is disposed, both buffers are
\* disposed, both notification observables are cleared.  The material maps
\* and the observers of running render() calls are left as they are.  The
\* rendering library either keeps or drops the render list of a disposed
\* texture.
Dispose ==
    /\ notifying = <<>>
    /\ ~draining
    /\ ~disposed.rtt1
    /\ disposed' = [disposed EXCEPT !.meshes = @ \cup Range(rtt1List),
                                    !.rtt1 = TRUE,
                                    !.rtt2 = TRUE,
                                    !.observables = TRUE]
    /\ \E dropped \in BOOLEAN :
          /\ rtt1List' = IF dropped THEN <<>> ELSE rtt1List
          /\ rtt2List' = IF dropped THEN <<>> ELSE rtt2List
    /\ UNCHANGED <<meshes, uv2, meshMaterialRTT1Map, meshMaterialRTT2Map,
                   addPc, hidden, packVars, renderVars>>

NextDispose ==
    \/ AddMeshes
    \/ HostSetLight
    \/ StartRender
    \/ Tick
    \/ Callback
    \/ Continue
    \/ Dispose

SpecDispose == InitRender /\ [][NextDispose]_vars

\* --------------------------------------------------------- potpack, stepwise
NewBox(i, w, h) ==
    [ref |-> i, w |-> w, h |-> h, x |-> Undefined, y |-> Undefined]

BoxInputs ==
    UNION {[1..n -> (0..MaxDim) \X (0..MaxDim)] : n \in 0..MaxBoxes}

InitPack ==
    /\ \E f \in BoxInputs :
          /\ boxes = [i \in DOMAIN f |-> NewBox(i, f[i][1], f[i][2])]
          /\ boxes0 = [i \in DOMAIN f |-> NewBox(i, f[i][1], f[i][2])]
    /\ spaces = <<>>
    /\ width = 0
    /\ height = 0
    /\ area = 0
    /\ startWidth = 0
    /\ boxIdx = 1
    /\ packPc = "call"
    /\ packResult = [w |-> 0, h |-> 0, fill |-> [num |-> 0, den |-> 1]]
    /\ firstRun = NoRun
    /\ InitPsm(<<>>)
    /\ InitRenderIdle(0)

PackStart ==
    /\ packPc = "call"
    /\ area' = SumArea(boxes)
    /\ startWidth' = PackSetup(boxes).spaces[1].w
    /\ boxes' = PackSetup(boxes).boxes
    /\ spaces' = PackSetup(boxes).spaces
    /\ width' = 0
    /\ height' = 0
    /\ boxIdx' = 1
    /\ packPc' = "loop"
    /\ UNCHANGED <<boxes0, packResult, firstRun, addVars, renderVars>>

PackPlace ==
    /\ packPc = "loop"
    /\ boxIdx <= Len(boxes)
    /\ LET st == PlaceBox([boxes |-> boxes, spaces |-> spaces,
                           width |-> width, height |-> height], boxIdx)
       IN /\ boxes' = st.boxes
          /\ spaces' = st.spaces
          /\ width' = st.width
          /\ height' = st.height
    /\ boxIdx' = boxIdx + 1
    /\ UNCHANGED <<boxes0, area, startWidth, packPc, packResult, firstRun,
                   addVars, renderVars>>

PackReturn ==
    /\ packPc = "loop"
    /\ boxIdx > Len(boxes)
    /\ packResult' = [w |-> width, h |-> height, fill |-> Fill(area, width, height)]
    /\ packPc' = "done"
    /\ UNCHANGED <<boxes, boxes0, spaces, width, height, area, startWidth,
                   boxIdx, firstRun, addVars, renderVars>>

NextPack == PackStart \/ PackPlace \/ PackReturn

SpecPack == InitPack /\ [][NextPack]_vars

\* potpack is called once more with a new array of the same rectangles in the
\* same order; what the first call left and returned is kept for comparison
PackAgain ==
    /\ packPc = "done"
    /\ ~firstRun.done
    /\ firstRun' = [done |-> TRUE, boxes |-> boxes, result |-> packResult]
    /\ boxes' = boxes0
    /\ packPc' = "call"
    /\ UNCHANGED <<boxes0, spaces, width, height, area, startWidth, boxIdx,
                   packResult, addVars, renderVars>>

NextPackTwice == PackStart \/ PackPlace \/ PackReturn \/ PackAgain

SpecPackTwice == InitPack /\ [][NextPackTwice]_vars

\* potpack on arrays made of rectangles of the sizes (4,2), (2,2), (2,4)
ExampleSizes == {<<4, 2>>, <<2, 2>>, <<2, 4>>}

ExampleBoxInputs == UNION {[1..n -> ExampleSizes] : n \in 0..3}

InitPackExample ==
    /\ \E f \in ExampleBoxInputs :
          /\ boxes = [i \in DOMAIN f |-> NewBox(i, f[i][1], f[i][2])]
          /\ boxes0 = [i \in DOMAIN f |-> NewBox(i, f[i][1], f[i][2])]
    /\ spaces = <<>>
    /\ width = 0
    /\ height = 0
    /\ area = 0
    /\ startWidth = 0
    /\ boxIdx = 1
    /\ packPc = "call"
    /\ packResult = [w |-> 0, h |-> 0, fill |-> [num |-> 0, den |-> 1]]
    /\ firstRun = NoRun
    /\ InitPsm(<<>>)
    /\ InitRenderIdle(0)

SpecPackExample == InitPackExample /\ [][NextPack]_vars

\* ------------------------------------------------------------ packer claims
PositiveArea(b) == b.w > 0 /\ b.h > 0

BoxesOverlap(a, b) ==
    /\ a.x < b.x + b.w
    /\ b.x < a.x + a.w
    /\ a.y < b.y + b.h
    /\ b.y < a.y + a.h

\* C1: after potpack returns, any two distinct rectangles of positive width
\* and height have a position and their boxes [x, x+w) x [y, y+h) are disjoint.
C1_NoOverlap ==
    packPc = "done" =>
        \A i, j \in 1..Len(boxes) :
            (i < j /\ PositiveArea(boxes[i]) /\ PositiveArea(boxes[j])) =>
                /\ boxes[i].x # Undefined
                /\ boxes[j].x # Undefined
                /\ ~BoxesOverlap(boxes[i], boxes[j])

\* C1 witness: three rectangles of positive area were packed, one to the right
\* of the origin and one below it.
C1_Witness ==
    /\ packPc = "done"
    /\ Len(boxes) = 3
    /\ \A i \in 1..3 : PositiveArea(boxes[i])
    /\ \E i, j \in 1..3 : boxes[i].x > 0 /\ boxes[j].y > 0

\* C2: after potpack returns every rectangle lies inside the reported
\* container: 0 <= x, 0 <= y, x + w <= container w, y + h <= container h.
C2_InsideContainer ==
    packPc = "done" =>
        \A i \in 1..Len(boxes) :
            /\ boxes[i].x >= 0
            /\ boxes[i].y >= 0
            /\ boxes[i].x + boxes[i].w <= packResult.w
            /\ boxes[i].y + boxes[i].h <= packResult.h

\* C2 witness: a packed rectangle placed off the left edge reaches the right
\* edge of the container and one placed off the top edge reaches its bottom.
C2_Witness ==
    /\ packPc = "done"
    /\ \E i, j \in 1..Len(boxes) :
          /\ PositiveArea(boxes[i])
          /\ PositiveArea(boxes[j])
          /\ boxes[i].x > 0
          /\ boxes[i].x + boxes[i].w = packResult.w
          /\ boxes[j].y > 0
          /\ boxes[j].y + boxes[j].h = packResult.h

\* C4 (as claimed): after potpack returns, the caller's sequence holds the
\* same rectangles at the same indices as before the call.
C4_InputOrderKept ==
    packPc = "done" =>
        \A i \in 1..Len(boxes) : boxes[i].ref = boxes0[i].ref

\* the caller passed (4,2), (2,2), (2,4), in that order
IsExampleInput ==
    /\ Len(boxes0) = 3
    /\ <<boxes0[1].w, boxes0[1].h>> = <<4, 2>>
    /\ <<boxes0[2].w, boxes0[2].h>> = <<2, 2>>
    /\ <<boxes0[3].w, boxes0[3].h>> = <<2, 4>>

NoTwoOverlap ==
    \A i, j \in 1..Len(boxes) : i < j => ~BoxesOverlap(boxes[i], boxes[j])

\* C16 (as claimed): packing (4,2), (2,2), (2,4) in that order gives a
\* container of width 6 and height 4, utilization 20/24, and no overlap.
C16_ExampleIs6By4 ==
    (packPc = "done" /\ IsExampleInput) =>
        /\ packResult.w = 6
        /\ packResult.h = 4
        /\ packResult.fill = [num |-> 20, den |-> 24]
        /\ NoTwoOverlap

\* C16 (amended): packing (4,2), (2,2), (2,4) in that order gives a
\* container of width 4 and height 6, utilization 20/24, and no overlap:
\* (2,4) lies at (0,0), (2,2) beside it at (2,0), (4,2) below them at (0,4).
C16_ExampleIs4By6 ==
    (packPc = "done" /\ IsExampleInput) =>
        /\ packResult.w = 4
        /\ packResult.h = 6
        /\ packResult.fill = [num |-> 20, den |-> 24]
        /\ NoTwoOverlap
        /\ \A i \in 1..3 :
              <<boxes[i].x, boxes[i].y>> =
                  CASE boxes[i].ref = 1 -> <<0, 4>>
                    [] boxes[i].ref = 2 -> <<2, 0>>
                    [] boxes[i].ref = 3 -> <<0, 0>>

\* C16 witness: potpack has returned from the example input.
C16_Witness == packPc = "done" /\ IsExampleInput /\ packResult.h = 6

\* C17 (as claimed): placing a rectangle of zero width or zero height puts it
\* at (0,0) and changes neither the free-space list nor the running width
\* and height of the container.
C17_ZeroAreaConsumesNothing ==
    [][(/\ packPc = "loop"
        /\ boxIdx <= Len(boxes)
        /\ ~PositiveArea(boxes[boxIdx])) =>
            /\ boxes'[boxIdx].x = 0
            /\ boxes'[boxIdx].y = 0
            /\ spaces' = spaces
            /\ width' = width
            /\ height' = height]_vars

\* C18 (as claimed): for an empty input and for an input of rectangles that
\* all have zero width or zero height, potpack returns w = 0, h = 0, fill = 0.
C18_NoAreaGivesZeroContainer ==
    (packPc = "done" /\ \A i \in 1..Len(boxes) : ~PositiveArea(boxes[i])) =>
        /\ packResult.w = 0
        /\ packResult.h = 0
        /\ packResult.fill.num = 0

\* C19: the utilization potpack returns is at most 1, and for a single
\* rectangle of positive area the container has the rectangle's size and the
\* utilization is 1.
C19_FillAtMostOne ==
    packPc = "done" =>
        /\ packResult.fill.den > 0
        /\ packResult.fill.num <= packResult.fill.den
        /\ (Len(boxes) = 1 /\ PositiveArea(boxes[1])) =>
              /\ packResult.w = boxes[1].w
              /\ packResult.h = boxes[1].h
              /\ packResult.fill.num = packResult.fill.den

\* C19 witness: a single rectangle of positive area, wider than high, was
\* packed with utilization 1.
C19_Witness ==
    /\ packPc = "done"
    /\ Len(boxes) = 1
    /\ boxes[1].w > boxes[1].h
    /\ boxes[1].h > 0
    /\ packResult.fill.num = packResult.fill.den

C25_FirstSpaceAlwaysFits ==
    /\ packPc = "loop" =>
          /\ Len(spaces) >= 1
          /\ spaces[1].x = 0
          /\ spaces[1].w = startWidth
          /\ spaces[1].h = Infinity
          /\ \A k \in 1..Len(boxes) : boxes[k].w <= startWidth
          /\ \A k \in 1..(boxIdx - 1) :
                boxes[k].x # Undefined /\ boxes[k].y # Undefined
    /\ packPc = "done" =>
          \A k \in 1..Len(boxes) :
              boxes[k].x # Undefined /\ boxes[k].y # Undefined

\* C25 witness: two rectangles of positive area are placed, spaces beside
\* them were made and used up, and the first space alone is left, moved down.
C25_Witness ==
    /\ packPc = "loop"
    /\ boxIdx = 3
    /\ PositiveArea(boxes[1])
    /\ PositiveArea(boxes[2])
    /\ Len(spaces) = 1
    /\ spaces[1].y > 0

\* the free-space list after `box` took the space at index i, case by case
SpacesAfter(sp, i, box) ==
    LET space == sp[i]
        below == [space EXCEPT !.y = space.y + box.h,
                               !.h = IF space.h = Infinity THEN Infinity
                                     ELSE space.h - box.h]
        right == [space EXCEPT !.x = space.x + box.w, !.w = space.w - box.w]
    IN IF box.w = space.w /\ box.h = space.h
       THEN {t \in Seq(Range(sp)) :
               /\ Len(t) = Len(sp) - 1
               /\ \A k \in 1..Len(t) : k # i => t[k] = sp[k]
               /\ i <= Len(t) => t[i] = sp[Len(sp)]}
       ELSE IF box.h = space.h THEN {[sp EXCEPT ![i] = right]}
       ELSE IF box.w = space.w THEN {[sp EXCEPT ![i] = below]}
       ELSE {Append([sp EXCEPT ![i] = below], [right EXCEPT !.h = box.h])}

\* C26: in the loop the rectangles stand in order of height descending, ties
\* in input order; each placement puts the rectangle at the corner of the
\* last space of the list it fits (w <= space.w and h <= space.h) and
\* removes, shrinks or splits that space according to the four cases.
C26_PlacementRule ==
    /\ [](packPc \in {"loop", "done"} =>
            \A i, j \in 1..Len(boxes) :
                i < j => \/ boxes[i].h > boxes[j].h
                         \/ boxes[i].h = boxes[j].h /\ boxes[i].ref < boxes[j].ref)
    /\ [][(packPc = "loop" /\ boxIdx <= Len(boxes)) =>
            LET box == boxes[boxIdx]
                fit == {i \in 1..Len(spaces) :
                          box.w <= spaces[i].w /\ box.h <= spaces[i].h}
                last == CHOOSE i \in fit : \A j \in fit : j <= i
            IN /\ fit # {}
               /\ boxes'[boxIdx].x = spaces[last].x
               /\ boxes'[boxIdx].y = spaces[last].y
               /\ spaces' \in SpacesAfter(spaces, last, box)]_vars

\* C26 witness: two placements have each split a space: the first space and
\* the space beside the first rectangle.
C26_Witness ==
    /\ packPc = "loop"
    /\ boxIdx = 3
    /\ Len(spaces) = 3
    /\ boxes[2].x > 0

\* --------------------------------------------------------- addMeshes claims
\* the packed rectangle of the mesh at `index`: the box derived from that mesh,
\* wherever sorting left it
OwnPackedBox(index) ==
    LET packed == potpack(MeshBoxes(meshes)).boxes
    IN packed[CHOOSE k \in 1..Len(packed) : packed[k].ref = index]

\* C3 (as claimed): after addMeshes, the second UV channel of every mesh that
\* received one was computed from that mesh's own UV array and bounds and its
\* own packed rectangle.
C3_Uv2FromOwnBox ==
    addPc # "none" =>
        \A i \in 1..Len(meshes) :
            uv2[i].set =>
                uv2[i].data =
                    BoxToUv2(OwnPackedBox(i),
                             potpack(MeshBoxes(meshes)).w,
                             potpack(MeshBoxes(meshes)).h)

\* C13 (as claimed): addMeshes throws only for a material whose clone returns
\* nothing, it does throw once it has come to such a mesh, and that mesh is
\* in neither render list and in neither material map.
C13_CloneFailureExcludesSurface ==
    addPc # "none" =>
        /\ addPc = "threw" => \E i \in 1..Len(meshes) : meshes[i].material = "noclone"
        /\ \A i \in 1..Len(meshes) :
              meshes[i].material = "noclone" =>
                  /\ uv2[i].set => addPc = "threw"
                  /\ i \notin Range(rtt1List)
                  /\ i \notin Range(rtt2List)
                  /\ i \notin DOMAIN meshMaterialRTT1Map
                  /\ i \notin DOMAIN meshMaterialRTT2Map

\* C14 (as claimed): addMeshes ends abnormally only for a clone failure, never
\* for a mesh without first-channel UVs; a mesh without UVs gets no second UV
\* channel, and when addMeshes returns every ordinary mesh whose own island
\* has positive width and height has got one.
C14_NoUvSurfacesSkipped ==
    addPc # "none" =>
        /\ (\A i \in 1..Len(meshes) : meshes[i].material # "noclone") =>
              addPc = "returned"
        /\ \A i \in 1..Len(meshes) : ~meshes[i].hasUv => ~uv2[i].set
        /\ addPc = "returned" =>
              \A i \in 1..Len(meshes) :
                  (/\ meshes[i].hasUv
                   /\ ~meshes[i].skipName
                   /\ PositiveArea(OwnPackedBox(i))) => uv2[i].set

\* whether the UV array has an island of zero width or zero height
Degenerate(uv) ==
    /\ Len(uv) > 0
    /\ \/ MinOf(Coords(uv, 1)) = MaxOf(Coords(uv, 1))
       \/ MinOf(Coords(uv, 2)) = MaxOf(Coords(uv, 2))

\* C15 (as claimed): no second UV channel holds a NaN or an Infinity (a
\* fraction over zero), and the channel set on a mesh whose island is
\* degenerate is empty.
C15_DegenerateIslandEmptyRemap ==
    \A i \in 1..Len(meshes) :
        uv2[i].set =>
            /\ \A k \in 1..Len(uv2[i].data) : uv2[i].data[k].den # 0
            /\ (meshes[i].hasUv /\ Degenerate(meshes[i].uv)) => uv2[i].data = <<>>

\* ------------------------------------------------------------ render claims
EventCount(s, kind) ==
    Cardinality({k \in 1..Len(events) :
                    events[k].session = s /\ events[k].kind = kind})

\* the renders of session s, in order
RendersOf(s) == SelectSeq(renderLog, LAMBDA r : r.session = s)

HasPending(s) == \E k \in 1..Len(microtasks) : microtasks[k].session = s

\* C5 (as claimed): a finished render(blendWindow = N) session has emitted
\* exactly N blend-iteration notifications, all of them before its one
\* bake-complete notification.
C5_NotificationCount ==
    \A s \in Sessions :
        sessState[s] = "done" =>
            /\ EventCount(s, "blend") = blendWindow[s]
            /\ EventCount(s, "bake") = 1
            /\ \A i, j \in 1..Len(events) :
                  (/\ events[i].session = s /\ events[i].kind = "blend"
                   /\ events[j].session = s /\ events[j].kind = "bake") => i < j

\* C6 (as claimed): after exactly N invocations of the step callback, each
\* with a ready write buffer and run to its end, the session is DONE.
C6_DoneAfterBudgetInvocations ==
    \A s \in Sessions :
        (/\ sessState[s] # "idle"
         /\ orderly[s]
         /\ invocations[s] = blendWindow[s]
         /\ ~HasPending(s)
         /\ notifying = <<>>) => sessState[s] = "done"

\* C6 (amended): a session with budget N is never DONE before its callback
\* was invoked N + 1 times; when every invocation found the buffer ready and
\* ran to its end before the next one, it is DONE exactly from invocation
\* N + 1 on; and bake complete is emitted once, at the transition to DONE.
C6_DoneAfterBudgetPlusOne ==
    \A s \in Sessions :
        /\ sessState[s] = "done" => invocations[s] >= blendWindow[s] + 1
        /\ (orderly[s] /\ sessState[s] # "idle") =>
              (sessState[s] = "done" <=> invocations[s] = blendWindow[s] + 1)
        /\ EventCount(s, "bake") = (IF sessState[s] = "done" THEN 1 ELSE 0)
        /\ sessState[s] = "done" => \A k \in 1..Len(observers) : observers[k] # s

\* C6 witness: a session with budget 2 and surfaces to render went through
\* two rendering invocations and was completed by the third.
C6_Witness ==
    \E s \in Sessions :
        /\ sessState[s] = "done"
        /\ orderly[s]
        /\ blendWindow[s] = 2
        /\ Len(RendersOf(s)) = 2
        /\ invocations[s] = 3

\* C7 (as claimed): when a session completes, the light is set back to the
\* direction it had when render() was called.
C7_RestoredToStartDirection ==
    \A k \in 1..Len(events) :
        events[k].kind = "bake" =>
            events[k].light = lightAtStart[events[k].session]

\* C8 (as claimed): the renders of a session with budget N use the iteration
\* indices 0, 1, ..., in increasing order, each once, and are at most N.
C8_IterationsInOrder ==
    \A s \in Sessions :
        /\ Len(RendersOf(s)) <= blendWindow[s]
        /\ \A k \in 1..Len(RendersOf(s)) : RendersOf(s)[k].iteration = k - 1

\* C9 (as claimed): getShadowMap() returns the initial second buffer before
\* any render and afterwards the buffer the latest completed render wrote.
C9_ShadowMapIsLastRender ==
    GetShadowMap = IF renderLog = <<>> THEN "RTT2"
                   ELSE renderLog[Len(renderLog)].rtt

\* C10 (as claimed): every render targets the buffer in the WRITE role at the
\* moment of the render, and the buffer getShadowMap() returns is never the
\* one a step waiting behind its readiness wait is about to render.
C10_RenderTargetsWriteRole ==
    /\ \A k \in 1..Len(renderLog) : renderLog[k].rtt = renderLog[k].write
    /\ \A k \in 1..Len(microtasks) : microtasks[k].writeRTT # GetShadowMap

\* C11 (as claimed): a session started with budget 0 or with no surface in
\* the render lists is a no-op: it never renders, it leaves the light's
\* direction as it was when render() was called, and when its first step has
\* run it is DONE with bake complete emitted.
C11_NoOpSessionDoneAtOnce ==
    \A s \in Sessions :
        (/\ sessState[s] # "idle"
         /\ blendWindow[s] = 0 \/ (rtt1List = <<>> /\ rtt2List = <<>>)) =>
            /\ RendersOf(s) = <<>>
            /\ (sessState[s] = "running"
                  /\ \A t \in Sessions : t # s => sessState[t] = "idle") =>
                  lightDirection = lightAtStart[s]
            /\ \A k \in 1..Len(events) :
                  events[k].session = s => events[k].light = lightAtStart[s]
            /\ (invocations[s] >= 1 /\ waitBetweenRenders[s] = 0) =>
                  (sessState[s] = "done" /\ EventCount(s, "bake") = 1)

\* ------------------------------------------------------------ dispose claims
\* C12 (as claimed): once dispose() has returned, both buffers and every
\* material in the two material maps are released, and no render has gone
\* into a disposed buffer.
C12_DisposeReleasesAll ==
    disposed.rtt1 =>
        /\ disposed.rtt2
        /\ DOMAIN meshMaterialRTT1Map \subseteq disposed.materials1
        /\ DOMAIN meshMaterialRTT2Map \subseteq disposed.materials2
        /\ \A k \in 1..Len(renderLog) : ~renderLog[k].disposed

\* C21: the direction a step of session s gives the light is the captured
\* direction jittered for (currentIteration, blendWindow) of that step and
\* nothing else, whatever direction earlier steps or the host left; a
\* callback that does not jitter leaves the light alone or restores the
\* captured direction.
C21_JitterStateless ==
    [][(notifying # <<>> /\ notifying' = Tail(notifying)) =>
         LET s == Head(notifying)
             applied == [base |-> originalLightDirection.base,
                         iteration |-> currentIteration[s],
                         total |-> blendWindow[s]]
         IN /\ lightDirection' \in {lightDirection, originalLightDirection, applied}
            /\ (waitBetweenRenders[s] = 0 /\ currentIteration[s] < blendWindow[s]) =>
                  lightDirection' = applied]_vars

\* C21 witness: the second step of a session with budget 2 has jittered the
\* light after the first step left its own jitter and the host had moved the
\* light before the session.
C21_Witness ==
    /\ lightDirection = [base |-> originalLightDirection.base,
                         iteration |-> 1, total |-> 2]
    /\ \E s \in Sessions :
          /\ sessState[s] = "running"
          /\ lightAtStart[s] # originalLightDirection
          /\ Len(RendersOf(s)) >= 1

\* the previousShadowMap textures of the materials buffer rtt is drawn with
PreviousOf(rtt) ==
    {MaterialMap(rtt)[id].previousShadowMap :
        id \in Range(RenderList(rtt)) \cap DOMAIN MaterialMap(rtt)}

\* C22 (as claimed): whenever a buffer is rendered in iteration i, the
\* isFirstIteration flag of every material it is drawn with is true exactly
\* when i = 0.
C22_FirstFlagIffIterationZero ==
    \A k \in 1..Len(renderLog) :
        renderLog[k].first = {renderLog[k].iteration = 0}

\* C23 (as claimed): every step that does not complete the session swaps the
\* roles once: with one session, between steps the WRITE role is on RTT1
\* exactly when the number of counted iterations is even, and a finished
\* session of budget 1 has rendered once.
C23_SwapPerIteration ==
    \A s \in Sessions :
        (/\ sessState[s] # "idle"
         /\ \A t \in Sessions : t # s => sessState[t] = "idle"
         /\ notifying = <<>>
         /\ microtasks = <<>>) =>
            /\ WriteRTT(useAlternateRTT) = "RTT1" <=> currentIteration[s] % 2 = 0
            /\ (sessState[s] = "done" /\ blendWindow[s] = 1) =>
                  Len(RendersOf(s)) = 1

\* C24 (as claimed): a render never samples the buffer it writes, and in an
\* iteration i >= 1 the previousShadowMap its materials sample is the buffer
\* that was rendered just before.
C24_SamplesPreviousRender ==
    \A k \in 1..Len(renderLog) :
        /\ renderLog[k].rtt \notin PreviousOf(renderLog[k].rtt)
        /\ (k > 1 /\ renderLog[k].iteration >= 1) =>
              PreviousOf(renderLog[k].rtt) = {renderLog[k - 1].rtt}

\* C28 (as claimed): the promise of a render() call is resolved only once
\* the bake complete of that call has been emitted.
C28_ResolvedAfterBakeComplete ==
    \A s \in Sessions : resolved[s] => EventCount(s, "bake") >= 1

\* the notifications session s has emitted, in order
EventsOf(s) == SelectSeq(events, LAMBDA e : e.session = s)

\* C27: while a session is running the light's direction is changed only by
\* a step of a running session; a session that has emitted bake complete is
\* no longer an observer and has no continuation queued, and no later step
\* calls its callback, renders, swaps roles or notifies on its behalf.
C27_DoneSessionIsSilent ==
    [][/\ (/\ lightDirection' # lightDirection
           /\ \E s \in Sessions : sessState[s] = "running") =>
              /\ notifying # <<>>
              /\ sessState[Head(notifying)] = "running"
       /\ useAlternateRTT' # useAlternateRTT =>
              /\ microtasks # <<>>
              /\ sessState[Head(microtasks).session] = "running"
       /\ \A s \in Sessions :
              sessState[s] = "done" =>
                 /\ sessState'[s] = "done"
                 /\ \A k \in 1..Len(observers) : observers[k] # s
                 /\ ~HasPending(s)
                 /\ invocations'[s] = invocations[s]
                 /\ RendersOf(s)' = RendersOf(s)
                 /\ EventsOf(s)' = EventsOf(s)
                 /\ currentIteration'[s] = currentIteration[s]]_vars

\* C27 witness: one session has emitted bake complete after a render, and
\* the other session, still running, has since jittered the light and been
\* called more often than the finished one.
C27_Witness ==
    \E s, t \in Sessions :
        /\ sessState[s] = "done"
        /\ Len(RendersOf(s)) >= 1
        /\ sessState[t] = "running"
        /\ invocations[t] > invocations[s]
        /\ lightDirection.iteration # Undefined

\* C29: with the render loop ticking for ever and the buffer ready again and
\* again, every running session emits bake complete; a callback that stops
\* at a buffer that is not ready (or returns because the wait has not
\* elapsed) renders nothing, swaps nothing, notifies nobody and counts no
\* iteration.
C29_EverySessionCompletes ==
    /\ \A s \in Sessions :
          (sessState[s] = "running") ~>
              (sessState[s] = "done" /\ EventCount(s, "bake") >= 1)
    /\ [][(/\ notifying # <<>>
           /\ notifying' = Tail(notifying)
           /\ ~IsComplete(currentIteration[Head(notifying)],
                          blendWindow[Head(notifying)])
           /\ Len(RenderList(WriteRTT(useAlternateRTT))) > 0
           /\ microtasks' = microtasks) =>
              UNCHANGED <<renderLog, useAlternateRTT, events, currentIteration,
                          sessState, observers>>]_vars

\* C29 witness: a session with surfaces to render and no wait between
\* renders has finished after more callbacks than its renders and its
\* completion account for: some of its ticks found the buffer not ready.
C29_Witness ==
    \E s \in Sessions :
        /\ sessState[s] = "done"
        /\ waitBetweenRenders[s] = 0
        /\ blendWindow[s] >= 1
        /\ Len(RendersOf(s)) >= 1
        /\ invocations[s] > Len(RendersOf(s)) + 1

\* C30 (as claimed): in the ping-pong variant the buffer in the READ role
\* has an empty render list and no call takes a uv mesh off the WRITE
\* buffer's list before dispose(), and dispose() disposes every uv mesh that
\* is in a render list, whatever the number of swaps before it.
C30_DisposeReleasesEveryUvMesh ==
    /\ [](~disposed.rtt1 => RenderList(ReadRTT(useAlternateRTT)) = <<>>)
    /\ [][(~disposed.rtt1 /\ ~disposed'.rtt1) =>
             Range(RenderList(WriteRTT(useAlternateRTT))) \subseteq
                 Range(RenderList(WriteRTT(useAlternateRTT)))']_vars
    /\ [][(~disposed.rtt1 /\ disposed'.rtt1) =>
             Range(rtt1List) \cup Range(rtt2List) \subseteq disposed'.meshes]_vars

=============================================================================
